---- MODULE Spec2Model ----
(***************************************************************************)
(* Model of the academic dashboard src/app.py: the loader (load_data), the *)
(* student index (student_options), the selection resolver                 *)
(* (prepare_student_data) and the statistics callbacks                     *)
(* (update_ue_dropdown, update_grades_graph, update_average_grade_chart,   *)
(* update_statistics), driven by the two dropdowns of the layout.          *)
(*                                                                         *)
(* Strings that the code splits or sorts (names, UE codes) are sequences   *)
(* of code points, so that str.split and sorted() are computed, not        *)
(* assumed.  Strings that are only compared for equality (subjects,        *)
(* column names, titles, colours) are TLA+ strings.                        *)
(* An optional value (Python None or a value) is the empty set or a        *)
(* singleton.                                                              *)
(* Grades are integers; a mean is kept exact, as a reduced fraction, and   *)
(* a rounded mean as an integer number of tenths or hundredths.            *)
(***************************************************************************)
EXTENDS Integers, Sequences, FiniteSets

\* ------------------------------------------------------------ bounds

\* Longest table (number of spreadsheet rows) a file of the model holds.
MaxRows == 3

\* ------------------------------------------------------------ state

VARIABLES
    file,             \* the spreadsheet the path names, fixed for the run
    pc,               \* "boot" before load_data has run, "serving" after
    df,               \* the global DataFrame
    options,          \* student-dropdown.options (their values)
    student_value,    \* student-dropdown.value
    store,            \* student-data-store.data
    ue_options,       \* ue-dropdown.options (their values)
    ue_value,         \* ue-dropdown.value
    grades_graph,     \* grades-graph.figure
    average_chart,    \* average-grade-pie-chart.figure
    statistics,       \* moyenne-generale.children, nombre-matieres.children
    pending           \* the callbacks an input change has triggered

vars == <<file, pc, df, options, student_value, store, ue_options, ue_value,
          grades_graph, average_chart, statistics, pending>>

\* ------------------------------------------------------------ strings

\* The separator of str.split(' ', 1) and of the f-string of the index.
Space == 32

None == {}
Some(x) == {x}
Get(o) == CHOOSE x \in o : TRUE

Min2(a, b) == IF a < b THEN a ELSE b

\* Python's str < str: lexicographic by code point, a proper prefix first.
StrLess(a, b) ==
    \E k \in 1..(Min2(Len(a), Len(b)) + 1) :
        /\ \A i \in 1..(k - 1) : a[i] = b[i]
        /\ \/ k = Len(a) + 1 /\ k <= Len(b)
           \/ k <= Len(a) /\ k <= Len(b) /\ a[k] < b[k]

\* Insertion of one string into an ascending list, after its equals.
RECURSIVE Insert(_, _)
Insert(x, s) ==
    IF s = <<>> THEN <<x>>
    ELSE IF StrLess(x, Head(s)) THEN <<x>> \o s
    ELSE <<Head(s)>> \o Insert(x, Tail(s))

\* Python's sorted() on a list of strings.
RECURSIVE sorted(_)
sorted(s) == IF s = <<>> THEN <<>> ELSE Insert(Head(s), sorted(Tail(s)))

\* The elements of a sequence, as a set.
Range(s) == {s[i] : i \in 1..Len(s)}

\* A set of strings as a sequence, in some order (Python's list(set(...))).
RECURSIVE SetToSeq(_)
SetToSeq(S) ==
    IF S = {} THEN <<>>
    ELSE LET x == CHOOSE y \in S : TRUE IN <<x>> \o SetToSeq(S \ {x})

\* The position of the first Space of s, 0 when it has none.
FirstSpace(s) ==
    IF \E i \in 1..Len(s) : s[i] = Space
    THEN CHOOSE i \in 1..Len(s) : s[i] = Space /\ \A j \in 1..(i - 1) : s[j] # Space
    ELSE 0

\* A split at every space that keeps a name of exactly two tokens and
\* leaves any other name whole: a multi-word name is refused.
splitAll(s) ==
    LET n == Cardinality({i \in 1..Len(s) : s[i] = Space})
        p == FirstSpace(s)
    IN  IF n = 1 THEN <<SubSeq(s, 1, p - 1), SubSeq(s, p + 1, Len(s))>>
        ELSE <<s>>

\* str.split(' ', 1): at most one split, at the first space.
split1(s) ==
    LET p == FirstSpace(s)
    IN  IF p = 0 THEN <<s>>
        ELSE <<SubSeq(s, 1, p - 1), SubSeq(s, p + 1, Len(s))>>

\* ------------------------------------------------------------ data

Jean == <<74, 101, 97, 110>>
Dupont == <<68, 117, 112, 111, 110, 116>>
Lea == <<76, 101, 97>>
Martin == <<77, 97, 114, 116, 105, 110>>
NameA == <<65>>
NameAB == <<65, 32, 66>>
NameB == <<66>>
NameBC == <<66, 32, 67>>
NameC == <<67>>
UE1 == <<85, 69, 49>>
UE2 == <<85, 69, 50>>
UE10 == <<85, 69, 49, 48>>

UnitCodes == {UE1, UE2, UE10}

\* The columns load_data requires, and one more a spreadsheet may hold.
required_columns == {"Nom", "Prenom", "Matiere", "Note", "UE"}
ExtraColumn == "Groupe"

Row(nom, prenom, matiere, note, ue) ==
    [Nom |-> nom, Prenom |-> prenom, Matiere |-> matiere, Note |-> note, UE |-> ue]

\* The rows of the grade tables: the end-to-end table of the specification
\* (the first three), a second grade in one subject, a second student whose
\* every grade is 0, and an odd grade that makes a mean of four fall on a tie.
GradeRows ==
    { Row(Dupont, Jean, "Math", 8, UE1),
      Row(Dupont, Jean, "Physics", 14, UE1),
      Row(Dupont, Jean, "Chemistry", 10, UE2),
      Row(Dupont, Jean, "Math", 12, UE1),
      Row(Dupont, Jean, "Physics", 11, UE1),
      Row(Martin, Lea, "Math", 0, UE2) }

\* The rows of the name tables: one-word and multi-word names whose
\* renderings collide ("A" + "B C" and "A B" + "C"), and a student whose
\* units sort differently as strings and as numbers.
NameRows ==
    { Row(NameBC, NameA, "Math", 10, UE2),
      Row(NameC, NameAB, "Math", 12, UE1),
      Row(NameB, NameA, "Math", 9, UE2),
      Row(NameB, NameA, "Physics", 11, UE10),
      Row(NameA, NameB, "Math", 7, UE1) }

\* The rows of the tables behind the dropdowns: a student with two units,
\* a student with one of them only, and a student whose multi-word first
\* name makes the option of the index resolve to nobody.
DropdownRows ==
    { Row(Dupont, Jean, "Math", 8, UE1),
      Row(Dupont, Jean, "Chemistry", 10, UE2),
      Row(Martin, Lea, "Math", 0, UE2),
      Row(NameC, NameAB, "Math", 12, UE1) }

\* The rows of the loader's files.
LoadRows ==
    { Row(Dupont, Jean, "Math", 8, UE1),
      Row(Martin, Lea, "Math", 0, UE2) }

\* Every sequence over S of length at most n.
SeqsUpTo(S, n) == UNION {[1..k -> S] : k \in 0..n}

\* A spreadsheet row holds a cell for each column of its sheet.
Cells(r, cols) ==
    [c \in cols |-> IF c \in DOMAIN r THEN r[c] ELSE "G1"]

\* A file on disk: what the path names, whether openpyxl can read it, its
\* header row and its rows.
File(kind, parseable, cols, rows) ==
    [kind |-> kind, parseable |-> parseable, columns |-> cols,
     rows |-> [i \in 1..Len(rows) |-> Cells(rows[i], cols)]]

GoodFiles(rows) ==
    {File("file", TRUE, required_columns, t) : t \in SeqsUpTo(rows, MaxRows)}

Headers ==
    {required_columns, required_columns \cup {ExtraColumn}}
        \cup {required_columns \ {c} : c \in required_columns}

AnyFiles(rows) ==
    {File(k, p, h, t) : k \in {"missing", "dir", "file"}, p \in BOOLEAN,
                        h \in Headers, t \in SeqsUpTo(rows, MaxRows)}

\* ------------------------------------------------------------ loader

\* pd.DataFrame(): no column, no row.
EmptyDataFrame == [columns |-> {}, rows |-> <<>>]

\* DataFrame.empty: any axis of length 0.
empty(frame) == frame.columns = {} \/ frame.rows = <<>>

\* pd.read_excel raises on a directory and on a file openpyxl cannot parse.
read_excel_raises(f) == f.kind # "file" \/ ~f.parseable

read_excel(f) == [columns |-> f.columns, rows |-> f.rows]

\* A column check that wants the required columns and no other.
load_dataExactColumns(f) ==
    IF f.kind = "missing" THEN EmptyDataFrame
    ELSE IF read_excel_raises(f) THEN EmptyDataFrame
    ELSE IF required_columns # read_excel(f).columns THEN EmptyDataFrame
    ELSE read_excel(f)

\* load_data(file_path): the empty frame when the path does not exist, when
\* reading raises, or when a required column is missing; else the frame read.
load_data(f) ==
    IF f.kind = "missing" THEN EmptyDataFrame
    ELSE IF read_excel_raises(f) THEN EmptyDataFrame
    ELSE IF ~(required_columns \subseteq read_excel(f).columns) THEN EmptyDataFrame
    ELSE read_excel(f)

\* ------------------------------------------------------------ student index

\* DataFrame.drop_duplicates(subset=['Nom', 'Prenom']): the first row of
\* each (Nom, Prenom) pair, in table order.
RECURSIVE drop_duplicates(_)
drop_duplicates(rows) ==
    IF rows = <<>> THEN <<>>
    ELSE LET init == SubSeq(rows, 1, Len(rows) - 1)
             last == rows[Len(rows)]
         IN  IF \E i \in 1..Len(init) :
                    init[i].Nom = last.Nom /\ init[i].Prenom = last.Prenom
             THEN drop_duplicates(init)
             ELSE Append(drop_duplicates(init), last)

\* f"{x['Prenom']} {x['Nom']}"
Render(r) == r.Prenom \o <<Space>> \o r.Nom

\* The values of the student dropdown's options, in order.
student_options(frame) ==
    IF empty(frame) THEN <<>>
    ELSE LET u == drop_duplicates(frame.rows)
         IN  sorted([i \in 1..Len(u) |-> Render(u[i])])

\* ------------------------------------------------------------ resolver

\* df[student_mask]: the rows of the student, in table order.
RECURSIVE Matching(_, _, _)
Matching(rows, prenom, nom) ==
    IF rows = <<>> THEN <<>>
    ELSE LET rest == Matching(Tail(rows), prenom, nom)
             r == Head(rows)
         IN  IF r.Prenom = prenom /\ r.Nom = nom THEN <<r>> \o rest ELSE rest

\* The units are left in the order of the rows.
available_uesUnsorted(records) ==
    LET u == [i \in 1..Len(records) |-> records[i].UE]
    IN  u

\* sorted(list(set(item['UE'] for item in student_data)))
available_ues(records) == sorted(SetToSeq({records[i].UE : i \in 1..Len(records)}))

\* prepare_student_data(selected_student): None, or the student's data.
prepare_student_data(selected_student, frame) ==
    IF selected_student = None \/ selected_student = Some(<<>>) \/ empty(frame)
    THEN None
    ELSE LET parts == split1(Get(selected_student))
         IN  IF Len(parts) # 2 THEN None
             ELSE LET student_data == Matching(frame.rows, parts[1], parts[2])
                  IN  IF student_data = <<>> THEN None
                      ELSE Some([student_records |-> student_data,
                                 available_ues |-> available_ues(student_data),
                                 student_name |-> Get(selected_student)])

\* ------------------------------------------------------------ arithmetic

RECURSIVE GCD(_, _)
GCD(a, b) == IF b = 0 THEN a ELSE GCD(b, a % b)

\* The exact value num/den, reduced (den > 0, num >= 0).
Frac(num, den) == LET g == GCD(num, den) IN [num |-> num \div g, den |-> den \div g]

\* num/den rounded to the nearest integer, a tie to the even one: numpy's
\* around (rint) and Python's float formatting.
RoundHalfEven(num, den) ==
    LET q == num \div den
        r == num % den
    IN  IF 2 * r < den THEN q
        ELSE IF 2 * r > den THEN q + 1
        ELSE IF q % 2 = 0 THEN q ELSE q + 1

RECURSIVE SumNotes(_)
SumNotes(rows) == IF rows = <<>> THEN 0 ELSE Head(rows).Note + SumNotes(Tail(rows))

\* Series.nunique() of the Matiere column.
nunique(rows) == Cardinality({rows[i].Matiere : i \in 1..Len(rows)})

\* Series.count() of the Matiere column: one per row.
count(rows) == Len(rows)

RECURSIVE Filter(_, _, _)
\* The rows whose field col equals v, in order.
Filter(rows, col, v) ==
    IF rows = <<>> THEN <<>>
    ELSE IF Head(rows)[col] = v THEN <<Head(rows)>> \o Filter(Tail(rows), col, v)
    ELSE Filter(Tail(rows), col, v)

\* ------------------------------------------------------------ statistics

colors == [success |-> "#2ecc71", warning |-> "#e74c3c"]

\* A figure: its title, the student it names and its rows; a figure that
\* only carries a message has no row.
Figure(title, name, data) == [title |-> title, student_name |-> name, data |-> data]

\* The class statistics taken over the selected student's rows only.
class_statsOfStudent(frame, matiere) ==
    LET g == Filter(Get(store).student_records, "Matiere", matiere)
        notes == {g[i].Note : i \in 1..Len(g)}
    IN  IF g = <<>> THEN None
        ELSE Some([Moyenne_Classe |-> Frac(SumNotes(g), Len(g)),
                   Min_Classe |-> CHOOSE n \in notes : \A m \in notes : n <= m,
                   Max_Classe |-> CHOOSE n \in notes : \A m \in notes : n >= m])

\* df.groupby('Matiere').agg({'Note': ['mean', 'min', 'max']}): the group of
\* one subject, None when the table has no row of it.
class_stats(frame, matiere) ==
    LET g == Filter(frame.rows, "Matiere", matiere)
        notes == {g[i].Note : i \in 1..Len(g)}
    IN  IF g = <<>> THEN None
        ELSE Some([Moyenne_Classe |-> Frac(SumNotes(g), Len(g)),
                   Min_Classe |-> CHOOSE n \in notes : \A m \in notes : n <= m,
                   Max_Classe |-> CHOOSE n \in notes : \A m \in notes : n >= m])

\* The colour of a bar of the grades graph.
grade_color(note) ==
    IF note < 10 THEN "red"
    ELSE IF note = 10 THEN "orange"
    ELSE "green"

\* One row per subject: the student's first row of each subject.
RECURSIVE mergeDistinct(_, _)
mergeDistinct(student_df, frame) ==
    IF student_df = <<>> THEN <<>>
    ELSE LET init == SubSeq(student_df, 1, Len(student_df) - 1)
             r == student_df[Len(student_df)]
             rest == mergeDistinct(init, frame)
         IN  IF \E i \in 1..Len(init) : init[i].Matiere = r.Matiere THEN rest
             ELSE Append(rest, [Matiere |-> r.Matiere, Note |-> r.Note, UE |-> r.UE,
                                class |-> class_stats(frame, r.Matiere)])

\* student_df.merge(class_stats, on='Matiere', how='left'): every row of the
\* student, in order, with the statistics of its subject.
merge(student_df, frame) ==
    [i \in 1..Len(student_df) |->
        [Matiere |-> student_df[i].Matiere, Note |-> student_df[i].Note,
         UE |-> student_df[i].UE,
         class |-> class_stats(frame, student_df[i].Matiere)]]

\* Python's truth value of the unit dropdown's value.
Truthy(selected_ue) == selected_ue # None /\ selected_ue # Some(<<>>)

\* update_grades_graph(student_data, selected_ue)
update_grades_graph(student_data, selected_ue, frame) ==
    IF student_data = None
    THEN Figure("Aucun etudiant selectionne.", None, <<>>)
    ELSE LET records == Get(student_data).student_records
             student_df == IF Truthy(selected_ue)
                           THEN Filter(records, "UE", Get(selected_ue))
                           ELSE records
         IN  IF student_df = <<>>
             THEN Figure("Aucune note disponible.", None, <<>>)
             ELSE LET plot_data == merge(student_df, frame)
                  IN  Figure("Performance detaillee de",
                             Some(Get(student_data).student_name),
                             [i \in 1..Len(plot_data) |->
                                 [Matiere |-> plot_data[i].Matiere,
                                  Note |-> plot_data[i].Note,
                                  class |-> plot_data[i].class,
                                  color |-> grade_color(plot_data[i].Note)]])

\* The colour of a bar of the unit chart, from a mean in tenths, with 10.0
\* counted as below passing.
bar_colorLax(tenths) ==
    IF tenths <= 100 THEN colors.warning ELSE colors.success

\* The colour of a bar of the unit chart, from a mean in tenths.
bar_color(tenths) ==
    IF tenths < 100 THEN colors.warning
    ELSE IF tenths = 100 THEN "orange"
    ELSE colors.success

\* One row of the unit chart that counts the rows of the unit.
average_rowCount(filtered_df, ue) ==
    LET g == Filter(filtered_df, "UE", ue)
        note == RoundHalfEven(10 * SumNotes(g), Len(g))
    IN  [UE |-> ue, Note |-> note, Matiere |-> count(g), color |-> bar_color(note)]

\* One row of the unit chart: groupby('UE')['Note'].mean() rounded to one
\* decimal (in tenths), groupby('UE')['Matiere'].nunique(), and the colour.
average_row(filtered_df, ue) ==
    LET g == Filter(filtered_df, "UE", ue)
        note == RoundHalfEven(10 * SumNotes(g), Len(g))
    IN  [UE |-> ue, Note |-> note, Matiere |-> nunique(g), color |-> bar_color(note)]

\* update_average_grade_chart(student_data)
update_average_grade_chart(student_data) ==
    IF student_data = None
    THEN Figure("Aucun etudiant selectionne.", None, <<>>)
    ELSE LET filtered_df == Get(student_data).student_records
         IN  IF filtered_df = <<>>
             THEN Figure("Aucune donnee disponible.", None, <<>>)
             ELSE LET ues == sorted(SetToSeq({filtered_df[i].UE : i \in 1..Len(filtered_df)}))
                  IN  Figure("Moyenne par UE", None,
                             [i \in 1..Len(ues) |-> average_row(filtered_df, ues[i])])

\* What a statistics card shows: a bare text, or a heading with a number.
Card(text, h2, className) == [text |-> text, h2 |-> h2, className |-> className]

NoData == Card("Pas de donnees", None, "")

\* A mean of 0 shown as missing data.
statistics_of_zero_as_nodata(filtered_df) ==
    IF filtered_df = <<>> \/ SumNotes(filtered_df) = 0
    THEN [moyenne_generale |-> NoData, nombre_matieres |-> NoData]
    ELSE [moyenne_generale |->
              Card("", Some(RoundHalfEven(100 * SumNotes(filtered_df), Len(filtered_df))),
                   IF SumNotes(filtered_df) >= 10 * Len(filtered_df)
                   THEN "text-success" ELSE "text-danger"),
          nombre_matieres |-> Card("", Some(nunique(filtered_df)), "text-primary")]

\* The two cards of update_statistics for the rows of a student: the mean
\* as f"{moyenne:.2f}" (in hundredths) and the number of distinct subjects.
statistics_of(filtered_df) ==
    IF filtered_df = <<>>
    THEN [moyenne_generale |-> NoData, nombre_matieres |-> NoData]
    ELSE [moyenne_generale |->
              Card("", Some(RoundHalfEven(100 * SumNotes(filtered_df), Len(filtered_df))),
                   IF SumNotes(filtered_df) >= 10 * Len(filtered_df)
                   THEN "text-success" ELSE "text-danger"),
          nombre_matieres |-> Card("", Some(nunique(filtered_df)), "text-primary")]

\* The overall statistics narrowed to the unit the dropdown shows.
update_statisticsOfUnit(student_data) ==
    IF student_data = None
    THEN [moyenne_generale |-> NoData, nombre_matieres |-> NoData]
    ELSE statistics_of(IF Truthy(ue_value)
                       THEN Filter(Get(student_data).student_records, "UE", Get(ue_value))
                       ELSE Get(student_data).student_records)

\* update_statistics(student_data)
update_statistics(student_data) ==
    IF student_data = None
    THEN [moyenne_generale |-> NoData, nombre_matieres |-> NoData]
    ELSE statistics_of(Get(student_data).student_records)

\* The options are renewed and the unit chosen before is kept.
update_ue_dropdownKeepsValue(student_data) ==
    IF student_data = None THEN [options |-> <<>>, value |-> ue_value]
    ELSE [options |-> sorted(Get(student_data).available_ues), value |-> ue_value]

\* update_ue_dropdown(student_data): the options, and the value reset.
update_ue_dropdown(student_data) ==
    IF student_data = None THEN [options |-> <<>>, value |-> None]
    ELSE [options |-> sorted(Get(student_data).available_ues), value |-> None]

\* ------------------------------------------------------------ callbacks

\* The callbacks whose Input is an output of the named callback, or the
\* value of the named dropdown.
Triggered(source) ==
    CASE source = "student-dropdown" -> {"prepare_student_data"}
      [] source = "prepare_student_data" ->
            {"update_ue_dropdown", "update_grades_graph",
             "update_average_grade_chart", "update_statistics"}
      [] source = "update_ue_dropdown" -> {"update_grades_graph"}
      [] source = "ue-dropdown" -> {"update_grades_graph"}
      [] OTHER -> {}

\* A callback runs once none of its inputs is the output of a callback
\* that is still to run.
Ready(callback) ==
    /\ callback \in pending
    /\ \A c \in pending : callback \notin Triggered(c)

\* What the layout shows before a callback has filled it.
Unrendered == Figure("", None, <<>>)
UnrenderedCards ==
    [moyenne_generale |-> Card("", None, ""), nombre_matieres |-> Card("", None, "")]

\* The first letter of a name in lower case.
LowerFirst(s) == [s EXCEPT ![1] = @ + 32]

\* The names a student selection is made of: no student, the options of
\* the dropdown, each option with its first letter in lower case, and a
\* name that holds no space.
StudentChoices ==
    {None} \cup {Some(options[i]) : i \in 1..Len(options)}
           \cup {Some(LowerFirst(options[i])) : i \in 1..Len(options)}
           \cup {Some(NameA)}

InitFrom(files) ==
    /\ file \in files
    /\ pc = "boot"
    /\ df = EmptyDataFrame
    /\ options = <<>>
    /\ student_value = None
    /\ store = None
    /\ ue_options = <<>>
    /\ ue_value = None
    /\ grades_graph = Unrendered
    /\ average_chart = Unrendered
    /\ statistics = UnrenderedCards
    /\ pending = {}

\* The grade tables, in a well-formed file.
Init == InitFrom(GoodFiles(GradeRows))

\* The name tables, in a well-formed file.
InitNames == InitFrom(GoodFiles(NameRows))

\* Every kind of file: missing, unreadable, short of a column, well-formed.
InitLoad == InitFrom(AnyFiles(LoadRows))

\* The tables behind the dropdowns, in a well-formed file.
InitDropdowns == InitFrom(GoodFiles(DropdownRows))

\* The script's start: load_data, the student index, the layout's first
\* student, and the first round of callbacks.
Load ==
    /\ pc = "boot"
    /\ pc' = "serving"
    /\ df' = load_data(file)
    /\ options' = student_options(df')
    /\ student_value' = IF options' # <<>> THEN Some(options'[1]) ELSE None
    /\ pending' = Triggered("student-dropdown")
    /\ UNCHANGED <<file, store, ue_options, ue_value, grades_graph,
                   average_chart, statistics>>

\* The user picks a student, or a request names one.
SelectStudent ==
    /\ pc = "serving"
    /\ pending = {}
    /\ \E s \in StudentChoices :
          /\ s # student_value
          /\ student_value' = s
    /\ pending' = Triggered("student-dropdown")
    /\ UNCHANGED <<file, pc, df, options, store, ue_options, ue_value,
                   grades_graph, average_chart, statistics>>

\* The user picks one of the units the dropdown offers, or clears it.
SelectUE ==
    /\ pc = "serving"
    /\ pending = {}
    /\ \E u \in {None} \cup {Some(ue_options[i]) : i \in 1..Len(ue_options)} :
          /\ u # ue_value
          /\ ue_value' = u
    /\ pending' = Triggered("ue-dropdown")
    /\ UNCHANGED <<file, pc, df, options, student_value, store, ue_options,
                   grades_graph, average_chart, statistics>>

\* A request names a unit code the dropdown does not offer.
RequestUE ==
    /\ pc = "serving"
    /\ pending = {}
    /\ \E u \in {Some(c) : c \in UnitCodes} :
          /\ u # ue_value
          /\ Get(u) \notin Range(ue_options)
          /\ ue_value' = u
    /\ pending' = Triggered("ue-dropdown")
    /\ UNCHANGED <<file, pc, df, options, student_value, store, ue_options,
                   grades_graph, average_chart, statistics>>

PrepareStudentData ==
    /\ Ready("prepare_student_data")
    /\ store' = prepare_student_data(student_value, df)
    /\ pending' = (pending \ {"prepare_student_data"})
                      \cup Triggered("prepare_student_data")
    /\ UNCHANGED <<file, pc, df, options, student_value, ue_options, ue_value,
                   grades_graph, average_chart, statistics>>

UpdateUeDropdown ==
    /\ Ready("update_ue_dropdown")
    /\ ue_options' = update_ue_dropdown(store).options
    /\ ue_value' = update_ue_dropdown(store).value
    /\ pending' = (pending \ {"update_ue_dropdown"})
                      \cup Triggered("update_ue_dropdown")
    /\ UNCHANGED <<file, pc, df, options, student_value, store,
                   grades_graph, average_chart, statistics>>

UpdateGradesGraph ==
    /\ Ready("update_grades_graph")
    /\ grades_graph' = update_grades_graph(store, ue_value, df)
    /\ pending' = pending \ {"update_grades_graph"}
    /\ UNCHANGED <<file, pc, df, options, student_value, store, ue_options,
                   ue_value, average_chart, statistics>>

UpdateAverageGradeChart ==
    /\ Ready("update_average_grade_chart")
    /\ average_chart' = update_average_grade_chart(store)
    /\ pending' = pending \ {"update_average_grade_chart"}
    /\ UNCHANGED <<file, pc, df, options, student_value, store, ue_options,
                   ue_value, grades_graph, statistics>>

UpdateStatistics ==
    /\ Ready("update_statistics")
    /\ statistics' = update_statistics(store)
    /\ pending' = pending \ {"update_statistics"}
    /\ UNCHANGED <<file, pc, df, options, student_value, store, ue_options,
                   ue_value, grades_graph, average_chart>>

Next ==
    \/ Load
    \/ SelectStudent
    \/ SelectUE
    \/ RequestUE
    \/ PrepareStudentData
    \/ UpdateUeDropdown
    \/ UpdateGradesGraph
    \/ UpdateAverageGradeChart
    \/ UpdateStatistics

\* The user picks another student among the options of the dropdown, at
\* any time, callbacks still to run or not.
ChangeStudent ==
    /\ pc = "serving"
    /\ \E s \in {Some(options[i]) : i \in 1..Len(options)} :
          /\ s # student_value
          /\ student_value' = s
    /\ pending' = pending \cup Triggered("student-dropdown")
    /\ UNCHANGED <<file, pc, df, options, store, ue_options, ue_value,
                   grades_graph, average_chart, statistics>>

\* The user picks one of the units the dropdown offers at that time, or
\* clears it, callbacks still to run or not.
ChangeUE ==
    /\ pc = "serving"
    /\ \E u \in {None} \cup {Some(ue_options[i]) : i \in 1..Len(ue_options)} :
          /\ u # ue_value
          /\ ue_value' = u
    /\ pending' = pending \cup Triggered("ue-dropdown")
    /\ UNCHANGED <<file, pc, df, options, student_value, store, ue_options,
                   grades_graph, average_chart, statistics>>

\* The dashboard as the browser drives it: the two dropdowns and the
\* callbacks.
NextDropdowns ==
    \/ Load
    \/ ChangeStudent
    \/ ChangeUE
    \/ PrepareStudentData
    \/ UpdateUeDropdown
    \/ UpdateGradesGraph
    \/ UpdateAverageGradeChart
    \/ UpdateStatistics

Spec == Init /\ [][Next]_vars

SpecDropdowns == InitDropdowns /\ [][NextDropdowns]_vars

SpecNames == InitNames /\ [][Next]_vars

SpecLoad == InitLoad /\ [][Next]_vars

\* ------------------------------------------------------------ properties

\* The number of space-separated tokens of a name: len(name.split(' ')).
TokenCount(s) == Cardinality({i \in 1..Len(s) : s[i] = Space}) + 1

HasSpace(s) == \E i \in 1..Len(s) : s[i] = Space

\* The store holds the resolution of the student the dropdown shows.
Resolved == pc = "serving" /\ "prepare_student_data" \notin pending

\* The rows of the table that render to a name with a first name free of
\* spaces: the rows whose Prenom is the text before the first space of the
\* name and whose Nom is all that follows.
RowsNamed(name) ==
    {i \in 1..Len(df.rows) :
        Render(df.rows[i]) = name /\ ~HasSpace(df.rows[i].Prenom)}

\* The k-th smallest element of a set of row numbers.
Kth(I, k) == CHOOSE i \in I : Cardinality({j \in I : j < i}) = k - 1

\* C1 as the specification states it: resolve returns null whenever the
\* display name does not split into exactly two space-separated tokens, a
\* name of three or more tokens included.
C1_MalformedUnlessTwoTokens ==
    (Resolved /\ student_value # None /\ TokenCount(Get(student_value)) # 2)
        => store = None

\* C1, amended: resolve returns null whenever the display name is missing,
\* empty or holds no space; a name of three or more tokens is cut at its
\* first space, and resolve returns null for it exactly when no row has
\* Prenom equal to the text before that space and Nom equal to all the rest.
C1_NullWithoutSpace ==
    Resolved =>
        /\ (student_value = None \/ ~HasSpace(Get(student_value))) => store = None
        /\ (student_value # None /\ TokenCount(Get(student_value)) >= 3)
              => (store = None <=> RowsNamed(Get(student_value)) = {})

\* A name of three tokens has been resolved to a student.
C1_Witness ==
    /\ Resolved
    /\ student_value # None
    /\ TokenCount(Get(student_value)) >= 3
    /\ store # None

\* C2: for a non-empty table and a name of exactly two tokens, resolve
\* returns null iff no row has Prenom = First and Nom = Last exactly; else
\* the records are the matching rows in table order, available_ues is the
\* strictly ascending list of their distinct UE values, and the name is
\* echoed unchanged.
C2_ResolveTwoTokens ==
    (Resolved /\ ~empty(df) /\ student_value # None
        /\ TokenCount(Get(student_value)) = 2)
    => LET name == Get(student_value)
           M == {i \in 1..Len(df.rows) : Render(df.rows[i]) = name}
       IN  IF M = {} THEN store = None
           ELSE /\ store # None
                /\ LET d == Get(store)
                   IN  /\ Len(d.student_records) = Cardinality(M)
                       /\ \A k \in 1..Cardinality(M) :
                             d.student_records[k] = df.rows[Kth(M, k)]
                       /\ Range(d.available_ues) = {df.rows[i].UE : i \in M}
                       /\ \A k \in 1..(Len(d.available_ues) - 1) :
                             StrLess(d.available_ues[k], d.available_ues[k + 1])
                       /\ d.student_name = name

\* A two-token name is resolved to a student whose rows do not come in the
\* order of their units and whose units number fewer than the rows.
C2_Witness ==
    /\ Resolved
    /\ student_value # None
    /\ TokenCount(Get(student_value)) = 2
    /\ store # None
    /\ Len(Get(store).available_ues) = 2
    /\ Len(Get(store).student_records) = 3
    /\ Get(store).student_records[1].UE = Get(store).available_ues[2]
    /\ Len(df.rows) = 3

\* C3 as the specification states it: the student index is sorted
\* ascending by the rendered "First Last" string, no two of its entries are
\* equal, each distinct (first_name, last_name) pair of the table appears
\* exactly once, and an empty table yields an empty index.
C3_IndexSortedNoDuplicate ==
    pc = "serving" =>
        /\ \A i \in 1..Len(options) : \A j \in 1..Len(options) :
              i < j => StrLess(options[i], options[j])
        /\ Len(options) =
              Cardinality({<<df.rows[i].Prenom, df.rows[i].Nom>> : i \in 1..Len(df.rows)})
        /\ empty(df) => options = <<>>

\* ------------------------------------------------------------ statistics, stated anew

\* The figure shown is the one update_grades_graph makes of the store and
\* the unit value as they stand.
GraphFresh ==
    pc = "serving" /\ grades_graph # Unrendered /\ "update_grades_graph" \notin pending

ChartFresh ==
    /\ pc = "serving"
    /\ average_chart # Unrendered
    /\ "update_average_grade_chart" \notin pending

StatsFresh ==
    pc = "serving" /\ statistics # UnrenderedCards /\ "update_statistics" \notin pending

\* The records of the selection that pass the unit filter (null: all).
Filtered ==
    LET recs == Get(store).student_records
    IN  {i \in 1..Len(recs) : ue_value = None \/ recs[i].UE = Get(ue_value)}

\* The sum of the grades of the rows numbered in I.
RECURSIVE SumOver(_, _)
SumOver(rows, I) ==
    IF I = {} THEN 0
    ELSE LET i == CHOOSE j \in I : TRUE IN rows[i].Note + SumOver(rows, I \ {i})

\* t is num/den rounded to the nearest integer, a tie rounded either way.
IsRounded(t, num, den) == 2 * (t * den - num) <= den /\ 2 * (num - t * den) <= den

\* C4 as the specification states it: the number of rows of
\* subjectComparison equals the number of distinct subjects among the
\* selection's records once the optional unit filter is applied.
C4_RowsAreDistinctSubjects ==
    (GraphFresh /\ store # None)
        => Len(grades_graph.data) =
              Cardinality({Get(store).student_records[i].Matiere : i \in Filtered})

\* C4, amended: the number of rows of subjectComparison equals the number
\* of records of the selection once the optional unit filter is applied,
\* one row per record and in the records' order, so that a subject the
\* student has several records for appears once per record.
C4_RowsAreRecords ==
    (GraphFresh /\ store # None)
        => /\ Len(grades_graph.data) = Cardinality(Filtered)
           /\ \A k \in 1..Len(grades_graph.data) :
                 LET r == Get(store).student_records[Kth(Filtered, k)]
                 IN  /\ grades_graph.data[k].Matiere = r.Matiere
                     /\ grades_graph.data[k].Note = r.Note

\* The graph shows two rows of one subject, under a unit filter.
C4_Witness ==
    /\ GraphFresh
    /\ store # None
    /\ ue_value # None
    /\ \E i \in 1..Len(grades_graph.data) : \E j \in 1..Len(grades_graph.data) :
          i < j /\ grades_graph.data[i].Matiere = grades_graph.data[j].Matiere
    /\ Len(grades_graph.data) < Len(Get(store).student_records)

\* C5: the class mean, minimum and maximum of every row of
\* subjectComparison are those of all the records of the whole table that
\* have the row's subject, whoever the selected student and whatever the
\* unit filter.
C5_ClassStatisticsAreGlobal ==
    GraphFresh =>
        \A k \in 1..Len(grades_graph.data) :
            LET row == grades_graph.data[k]
                I == {i \in 1..Len(df.rows) : df.rows[i].Matiere = row.Matiere}
            IN  /\ row.class # None
                /\ LET c == Get(row.class)
                   IN  /\ c.Moyenne_Classe.num * Cardinality(I)
                             = c.Moyenne_Classe.den * SumOver(df.rows, I)
                       /\ \E i \in I : df.rows[i].Note = c.Min_Classe
                       /\ \A i \in I : df.rows[i].Note >= c.Min_Classe
                       /\ \E i \in I : df.rows[i].Note = c.Max_Classe
                       /\ \A i \in I : df.rows[i].Note <= c.Max_Classe

\* Under a unit filter, a row of the graph carries a class minimum that is
\* below every grade of the selected student: another student's grade.
C5_Witness ==
    /\ GraphFresh
    /\ store # None
    /\ ue_value # None
    /\ \E k \in 1..Len(grades_graph.data) :
          /\ grades_graph.data[k].class # None
          /\ \A i \in 1..Len(Get(store).student_records) :
                Get(grades_graph.data[k].class).Min_Classe
                    < Get(store).student_records[i].Note

\* The bucket of a value given in tenths.
Trichotomy(tenths) ==
    IF tenths < 100 THEN "below passing"
    ELSE IF tenths = 100 THEN "boundary"
    ELSE "passing"

\* The bucket a colour of the grades graph stands for.
GraphBucket(color) ==
    CASE color = "red" -> "below passing"
      [] color = "orange" -> "boundary"
      [] color = "green" -> "passing"
      [] OTHER -> "none"

\* The bucket a colour of the unit chart stands for.
ChartBucket(color) ==
    CASE color = colors.warning -> "below passing"
      [] color = "orange" -> "boundary"
      [] color = colors.success -> "passing"
      [] OTHER -> "none"

\* C6: every grade of subjectComparison and every unit mean of
\* unitAverages is in exactly the bucket of its value (< 10 below passing,
\* = 10 boundary, > 10 passing), and a value shown in both charts is in the
\* same bucket in both.
C6_Trichotomy ==
    /\ GraphFresh =>
          \A k \in 1..Len(grades_graph.data) :
              GraphBucket(grades_graph.data[k].color)
                  = Trichotomy(10 * grades_graph.data[k].Note)
    /\ ChartFresh =>
          \A k \in 1..Len(average_chart.data) :
              ChartBucket(average_chart.data[k].color)
                  = Trichotomy(average_chart.data[k].Note)
    /\ (GraphFresh /\ ChartFresh) =>
          \A k \in 1..Len(grades_graph.data) : \A j \in 1..Len(average_chart.data) :
              10 * grades_graph.data[k].Note = average_chart.data[j].Note
                  => GraphBucket(grades_graph.data[k].color)
                         = ChartBucket(average_chart.data[j].color)

\* Both charts show the value 10, the unit mean being a mean of two
\* grades, and both show values on either side of it.
C6_Witness ==
    /\ GraphFresh
    /\ ChartFresh
    /\ \E k \in 1..Len(grades_graph.data) : grades_graph.data[k].Note = 10
    /\ \E j \in 1..Len(average_chart.data) :
          /\ average_chart.data[j].Note = 100
          /\ Len(Filter(Get(store).student_records, "UE", average_chart.data[j].UE)) = 2
    /\ \E k \in 1..Len(grades_graph.data) : grades_graph.data[k].Note < 10
    /\ \E k \in 1..Len(grades_graph.data) : grades_graph.data[k].Note > 10

\* The end-to-end table of the specification.
ExampleTable ==
    << Row(Dupont, Jean, "Math", 8, UE1),
       Row(Dupont, Jean, "Physics", 14, UE1),
       Row(Dupont, Jean, "Chemistry", 10, UE2) >>

JeanDupont == Jean \o <<Space>> \o Dupont

\* C7: for a non-empty selection unitAverages has one row per distinct unit
\* of the selection's records, ascending by unit code; meanGrade is the mean
\* of the unit's grades rounded to one decimal and subjectCount the number
\* of distinct subjects of the unit; the end-to-end table gives
\* [(UE1, 11.0, 2), (UE2, 10.0, 1)] for "Jean Dupont".
C7_UnitAverages ==
    (ChartFresh /\ store # None) =>
        LET recs == Get(store).student_records
            rows == average_chart.data
        IN  /\ {rows[k].UE : k \in 1..Len(rows)} = {recs[i].UE : i \in 1..Len(recs)}
            /\ \A k \in 1..(Len(rows) - 1) : StrLess(rows[k].UE, rows[k + 1].UE)
            /\ \A k \in 1..Len(rows) :
                  LET I == {i \in 1..Len(recs) : recs[i].UE = rows[k].UE}
                  IN  /\ IsRounded(rows[k].Note, 10 * SumOver(recs, I), Cardinality(I))
                      /\ rows[k].Matiere = Cardinality({recs[i].Matiere : i \in I})
            /\ (df.rows = ExampleTable /\ recs = ExampleTable)
                  => /\ Len(rows) = 2
                     /\ rows[1].UE = UE1 /\ rows[1].Note = 110 /\ rows[1].Matiere = 2
                     /\ rows[2].UE = UE2 /\ rows[2].Note = 100 /\ rows[2].Matiere = 1

\* The chart of "Jean Dupont" over the end-to-end table.
C7_Witness ==
    /\ ChartFresh
    /\ df.rows = ExampleTable
    /\ student_value = Some(JeanDupont)
    /\ store # None
    /\ Len(average_chart.data) = 2

\* The overall statistics shown are those of all the records of the
\* selection: the mean to two decimals and the number of distinct subjects.
OverallOfSelection ==
    IF store = None
    THEN statistics = [moyenne_generale |-> NoData, nombre_matieres |-> NoData]
    ELSE LET recs == Get(store).student_records
             all == 1..Len(recs)
         IN  /\ statistics.moyenne_generale.h2 # None
             /\ IsRounded(Get(statistics.moyenne_generale.h2),
                          100 * SumOver(recs, all), Len(recs))
             /\ statistics.nombre_matieres.h2
                   = Some(Cardinality({recs[i].Matiere : i \in all}))

\* The rows of unitAverages cover every record of the selection.
ChartOfSelection ==
    store # None =>
        LET recs == Get(store).student_records
            rows == average_chart.data
        IN  /\ {rows[k].UE : k \in 1..Len(rows)} = {recs[i].UE : i \in 1..Len(recs)}
            /\ \A k \in 1..Len(rows) :
                  LET I == {i \in 1..Len(recs) : recs[i].UE = rows[k].UE}
                  IN  IsRounded(rows[k].Note, 10 * SumOver(recs, I), Cardinality(I))

\* C8: the overall statistics are the mean and the distinct-subject count
\* over all the records of the selection, across all units, whatever the
\* unit filter; and a step that changes the unit filter leaves the overall
\* statistics and the rows of unitAverages as they were.
C8_OverallIgnoresUnit ==
    [][ /\ StatsFresh' => OverallOfSelection'
        /\ ChartFresh' => ChartOfSelection'
        /\ ue_value' # ue_value
              => statistics' = statistics /\ average_chart' = average_chart ]_vars

\* The statistics of a student with records in two units stand while a
\* unit filter narrows the graph to one of them.
C8_Witness ==
    /\ StatsFresh
    /\ ChartFresh
    /\ GraphFresh
    /\ pending = {}
    /\ store # None
    /\ ue_value # None
    /\ Len(Get(store).available_ues) = 2
    /\ grades_graph.data # <<>>
    /\ Len(grades_graph.data) < Len(Get(store).student_records)
    /\ statistics.nombre_matieres.h2 # None
    /\ Get(statistics.nombre_matieres.h2)
          > Cardinality({grades_graph.data[k].Matiere : k \in 1..Len(grades_graph.data)})

\* The titles of the figures that stand for "no data".
PlaceholderTitles ==
    {"Aucun etudiant selectionne.", "Aucune note disponible.", "Aucune donnee disponible."}

IsPlaceholder(fig) == fig.data = <<>> /\ fig.title \in PlaceholderTitles

IsGenuine(fig) == fig.data # <<>> /\ fig.title \notin PlaceholderTitles

\* C9: each of the three operations yields its "no data" placeholder when
\* the selection is null or its (unit-filtered) records are empty, and only
\* then; a placeholder carries no number, and a selection whose grades are
\* all 0 yields a genuine result with mean 0.
C9_PlaceholderIffNoData ==
    /\ GraphFresh =>
          IF store = None \/ Filtered = {}
          THEN IsPlaceholder(grades_graph) ELSE IsGenuine(grades_graph)
    /\ ChartFresh =>
          IF store = None \/ Get(store).student_records = <<>>
          THEN IsPlaceholder(average_chart) ELSE IsGenuine(average_chart)
    /\ StatsFresh =>
          IF store = None \/ Get(store).student_records = <<>>
          THEN /\ statistics.moyenne_generale = NoData
               /\ statistics.nombre_matieres = NoData
               /\ NoData.h2 = None
          ELSE /\ statistics.moyenne_generale.h2 # None
               /\ statistics.nombre_matieres.h2 # None
               /\ statistics.moyenne_generale.text # NoData.text
               /\ (\A i \in 1..Len(Get(store).student_records) :
                      Get(store).student_records[i].Note = 0)
                     => statistics.moyenne_generale.h2 = Some(0)

\* A student whose every grade is 0 shows a mean of 0 and a unit mean of 0
\* while the unit filter leaves the graph without a record.
C9_Witness ==
    /\ pending = {}
    /\ StatsFresh
    /\ ChartFresh
    /\ GraphFresh
    /\ store # None
    /\ Filtered = {}
    /\ IsPlaceholder(grades_graph)
    /\ statistics.moyenne_generale.h2 = Some(0)
    /\ IsGenuine(average_chart)
    /\ average_chart.data[1].Note = 0

\* C10: load returns the empty table when the path is not an existing
\* file, when the file cannot be parsed, or when a required column is
\* missing; in every other case, extra columns included, it returns the
\* parsed table, all rows in their order.
C10_LoadEmptyOrWhole ==
    pc = "serving" =>
        IF \/ file.kind # "file"
           \/ ~file.parseable
           \/ \E c \in required_columns : c \notin file.columns
        THEN df = EmptyDataFrame
        ELSE /\ df.columns = file.columns
             /\ df.rows = file.rows

\* A readable file with an extra column and two different rows is loaded.
C10_Witness ==
    /\ pc = "serving"
    /\ file.kind = "file"
    /\ file.parseable
    /\ ExtraColumn \in file.columns
    /\ required_columns \subseteq file.columns
    /\ Len(file.rows) >= 2
    /\ file.rows[1] # file.rows[2]
    /\ df.rows = file.rows
    /\ options # <<>>

\* ------------------------------------------------------------ the unit dropdown

\* Neither the resolver nor the unit dropdown's callback is still to run:
\* the callbacks a student change triggers upstream of the graph have run.
UnitSettled ==
    /\ pc = "serving"
    /\ "prepare_student_data" \notin pending
    /\ "update_ue_dropdown" \notin pending

\* The units of the records of the current selection, none when it is null.
UnitsOfSelection ==
    IF store = None THEN {}
    ELSE {Get(store).student_records[i].UE :
             i \in 1..Len(Get(store).student_records)}

\* The step is a run of update_ue_dropdown.
UnitCallbackRuns ==
    "update_ue_dropdown" \in pending /\ "update_ue_dropdown" \notin pending'

\* The step is a run of update_grades_graph.
GraphCallbackRuns ==
    "update_grades_graph" \in pending /\ "update_grades_graph" \notin pending'

\* C11: whatever the student and unit changes, the run of the unit
\* dropdown's callback that follows a student change resets the value to
\* null; once the resolver and that callback have run, the options are
\* exactly the units of the new selection, ascending (none when it is
\* null), and the value is null or one of them; so every run of
\* subjectComparison sees a filter that is null or a unit of the current
\* selection, and the graph never shows the figure of an empty filter.
C11_UnitFollowsSelection ==
    [][ /\ UnitCallbackRuns => ue_value' = None
        /\ UnitSettled' =>
              /\ Range(ue_options') = UnitsOfSelection'
              /\ \A k \in 1..(Len(ue_options') - 1) :
                    StrLess(ue_options'[k], ue_options'[k + 1])
              /\ ue_value' = None \/ Get(ue_value') \in UnitsOfSelection'
        /\ GraphCallbackRuns =>
              /\ UnitSettled
              /\ ue_value = None \/ Get(ue_value) \in UnitsOfSelection
              /\ grades_graph'.title # "Aucune note disponible." ]_vars

\* The graph is about to be drawn for a student who has no record in the
\* unit that the figure still on screen, the previous student's, is
\* narrowed to; the unit value has been reset and the options renewed.
C11_Witness ==
    /\ Ready("update_grades_graph")
    /\ store # None
    /\ Get(store).student_name = Lea \o <<Space>> \o Martin
    /\ grades_graph.student_name = Some(JeanDupont)
    /\ Len(grades_graph.data) = 1
    /\ grades_graph.data[1].Matiere = "Math"
    /\ Len(Filter(df.rows, "Nom", Dupont)) = 2
    /\ UE1 \notin UnitsOfSelection
    /\ ue_value = None
    /\ ue_options = <<UE2>>

\* ------------------------------------------------------------ index and resolver

\* The rows of the table that have the names of row j, in table order.
RowsOfPair(j) ==
    LET I == {i \in 1..Len(df.rows) :
                 /\ df.rows[i].Prenom = df.rows[j].Prenom
                 /\ df.rows[i].Nom = df.rows[j].Nom}
    IN  [k \in 1..Cardinality(I) |-> df.rows[Kth(I, k)]]

\* C12 as stated: for a non-empty table, every string the student index
\* offers resolves to a selection that is not null and whose records are
\* exactly the rows of the (first_name, last_name) pair the string was
\* rendered from, names that hold a space included.
C12_IndexResolves ==
    (Resolved /\ ~empty(df) /\ student_value # None
        /\ Get(student_value) \in Range(options))
    => /\ store # None
       /\ \A j \in 1..Len(df.rows) :
             Render(df.rows[j]) = Get(student_value)
                 => Get(store).student_records = RowsOfPair(j)

====
